---- MODULE Spec2Model ----
(***************************************************************************)
(* Model of agents_demo.py: the Planner -> Reviewer -> Finalizer pipeline, *)
(* its JSON extractor, its stage schemas and its deterministic repair.     *)
(*                                                                         *)
(* A Python str is a sequence of one-character strings.  A JSON value is a *)
(* record of one fixed shape, [t, n, s, keys, items], tagged by t.         *)
(***************************************************************************)
EXTENDS Integers, Sequences, FiniteSets, TLC

\* ------------------------------------------------------------ characters

LowerLetters ==
    <<"a","b","c","d","e","f","g","h","i","j","k","l","m",
      "n","o","p","q","r","s","t","u","v","w","x","y","z">>

UpperLetters ==
    <<"A","B","C","D","E","F","G","H","I","J","K","L","M",
      "N","O","P","Q","R","S","T","U","V","W","X","Y","Z">>

Digits == <<"0","1","2","3","4","5","6","7","8","9">>

Range(f) == {f[i] : i \in DOMAIN f}

\* The characters the regex class \w matches, among those the model uses.
\* U+00E2 (a with circumflex) is a letter, hence a \w character.
WordChars ==
    Range(LowerLetters) \cup Range(UpperLetters) \cup Range(Digits) \cup {"_", "â"}

\* The class [\w'-] of the word-token pattern.
TokenChars == WordChars \cup {"'", "-"}

\* The whitespace str.strip() removes and json.loads skips, among the
\* characters the model uses.
Whitespace == {" "}

\* The argument of rstrip in the truncation: space , ; : U+00E2 U+20AC U+201D -
\* (U+20AC and U+201D are written by name: they are not word characters and
\* no text of the model holds them.)
RstripChars == {" ", ",", ";", ":", "â", "U+20AC", "U+201D", "-"}

\* The least j in lo..hi with P(j), or hi + 1 when there is none.
First(lo, hi, P(_)) ==
    IF \E j \in lo..hi : P(j)
    THEN CHOOSE j \in lo..hi : P(j) /\ \A k \in lo..(j - 1) : ~P(k)
    ELSE hi + 1

\* The greatest j in lo..hi with P(j), or lo - 1 when there is none.
Last(lo, hi, P(_)) ==
    IF \E j \in lo..hi : P(j)
    THEN CHOOSE j \in lo..hi : P(j) /\ \A k \in (j + 1)..hi : ~P(k)
    ELSE lo - 1

\* str.lower() on one character.
LowerChar(c) ==
    IF \E i \in 1..26 : UpperLetters[i] = c
    THEN LowerLetters[CHOOSE i \in 1..26 : UpperLetters[i] = c]
    ELSE c

lower(s) == [i \in 1..Len(s) |-> LowerChar(s[i])]

\* str.lstrip(): from the first character that is no whitespace on.
lstrip(s) == SubSeq(s, First(1, Len(s), LAMBDA i : s[i] \notin Whitespace), Len(s))

\* str.rstrip(chars): up to the last character that is not in chars.
rstrip(s, chars) == SubSeq(s, 1, Last(1, Len(s), LAMBDA i : s[i] \notin chars))

\* str.strip()
strip(s) == rstrip(lstrip(s), Whitespace)

\* sep.join(parts)
RECURSIVE join(_, _)
join(sep, parts) ==
    IF parts = <<>> THEN <<>>
    ELSE IF Len(parts) = 1 THEN parts[1]
    ELSE parts[1] \o sep \o join(sep, Tail(parts))

\* --------------------------------------------------------- word tokens

\* The regex assertion \b at the gap before s[i] (i in 1..Len(s)+1).
IsWordAt(s, i) == i >= 1 /\ i <= Len(s) /\ s[i] \in WordChars

Boundary(s, i) == IsWordAt(s, i - 1) # IsWordAt(s, i)

\* The last index of the run of token characters that starts at i.
RunEnd(s, i) == First(i, Len(s), LAMBDA j : s[j] \notin TokenChars) - 1

\* Whether a match can start at i: a token character at a word boundary.
CanStart(s, i) == s[i] \in TokenChars /\ Boundary(s, i)

\* The end of the match that starts at i: the greedy run, backtracked to
\* the last end that is a word boundary (i - 1: no match starts at i).
MatchEnd(s, i) == Last(i, RunEnd(s, i), LAMBDA e : Boundary(s, e + 1))

\* re.findall(r"\b[\w'-]+\b", s) from position i on: the scan moves to the
\* next position b where a match can start; a match found there (its end e
\* is not before b) is taken and the scan goes on behind it, else the scan
\* moves one character on.
RECURSIVE FindTokens(_, _)
TokenAt(s, b, e) ==
    IF e < b THEN FindTokens(s, b + 1)
    ELSE <<SubSeq(s, b, e)>> \o FindTokens(s, e + 1)

TokensFrom(s, b) == IF b > Len(s) THEN <<>> ELSE TokenAt(s, b, MatchEnd(s, b))

FindTokens(s, i) == TokensFrom(s, First(i, Len(s), LAMBDA j : CanStart(s, j)))

Tokens(s) == FindTokens(s, 1)

word_count(s) == Len(Tokens(s))

\* ---------------------------------------------------------- JSON values

\* What json.loads returns: None, bool, int, str, list, dict.  A dict keeps
\* its keys in insertion order (keys[i] maps to items[i]).
JNull == [t |-> "null", n |-> 0, s |-> <<>>, keys |-> <<>>, items |-> <<>>]

JBool(b) == [JNull EXCEPT !.t = "bool", !.n = IF b THEN 1 ELSE 0]

JNum(k) == [JNull EXCEPT !.t = "num", !.n = k]

JStr(str) == [JNull EXCEPT !.t = "str", !.s = str]

JArr(xs) == [JNull EXCEPT !.t = "arr", !.items = xs]

JObj(ks, xs) == [JNull EXCEPT !.t = "obj", !.keys = ks, !.items = xs]

IsDict(v) == v.t = "obj"

IsList(v) == v.t = "arr"

IsStr(v) == v.t = "str"

\* The index of key k in the dict, or 0.
KeyIndex(obj, k) ==
    IF \E i \in 1..Len(obj.keys) : obj.keys[i] = k
    THEN CHOOSE i \in 1..Len(obj.keys) : obj.keys[i] = k
    ELSE 0

ItemAt(obj, i) == IF i = 0 THEN JNull ELSE obj.items[i]

\* dict.get(k): the value, or None.
Get(obj, k) == ItemAt(obj, KeyIndex(obj, k))

PutAt(obj, i, k, v) ==
    IF i = 0 THEN [obj EXCEPT !.keys = Append(@, k), !.items = Append(@, v)]
    ELSE [obj EXCEPT !.items[i] = v]

\* d[k] = v on a dict under construction: a repeated key keeps its place and
\* takes the later value.
ObjPut(obj, k, v) == PutAt(obj, KeyIndex(obj, k), k, v)

\* Python truthiness of a JSON value (the left operand of "or").
Truthy(v) ==
    CASE v.t = "null" -> FALSE
      [] v.t = "bool" -> v.n = 1
      [] v.t = "num"  -> v.n # 0
      [] v.t = "str"  -> v.s # <<>>
      [] v.t = "arr"  -> v.items # <<>>
      [] v.t = "obj"  -> v.keys # <<>>

\* The decimal digits of a natural number.
RECURSIVE NatDigits(_)
NatDigits(k) ==
    IF k < 10 THEN <<Digits[k + 1]>>
    ELSE NatDigits(k \div 10) \o <<Digits[(k % 10) + 1]>>

IntText(k) == IF k < 0 THEN <<"-">> \o NatDigits(-k) ELSE NatDigits(k)

\* repr(s) of a str that holds no double quote and no backslash: single
\* quotes, or double quotes when s holds a single quote.
ReprStr(str) ==
    IF \E i \in 1..Len(str) : str[i] = "'"
    THEN <<"\"">> \o str \o <<"\"">>
    ELSE <<"'">> \o str \o <<"'">>

\* repr(v) of a JSON value.
RECURSIVE PyRepr(_)
PyRepr(v) ==
    CASE v.t = "null" -> <<"N","o","n","e">>
      [] v.t = "bool" -> IF v.n = 1 THEN <<"T","r","u","e">>
                                    ELSE <<"F","a","l","s","e">>
      [] v.t = "num"  -> IntText(v.n)
      [] v.t = "str"  -> ReprStr(v.s)
      [] v.t = "arr"  ->
            <<"[">> \o join(<<",", " ">>,
                            [i \in 1..Len(v.items) |-> PyRepr(v.items[i])])
                    \o <<"]">>
      [] v.t = "obj"  ->
            <<"{">> \o join(<<",", " ">>,
                            [i \in 1..Len(v.keys) |->
                                ReprStr(v.keys[i]) \o <<":", " ">>
                                    \o PyRepr(v.items[i])])
                    \o <<"}">>

\* str(v): a str is itself, anything else its repr.
PyStr(v) == IF v.t = "str" THEN v.s ELSE PyRepr(v)

\* json.dumps(v, ensure_ascii=False) of a value whose strings need no
\* escape: separators ", " and ": ".
RECURSIVE dumps(_)
dumps(v) ==
    CASE v.t = "null" -> <<"n","u","l","l">>
      [] v.t = "bool" -> IF v.n = 1 THEN <<"t","r","u","e">>
                                    ELSE <<"f","a","l","s","e">>
      [] v.t = "num"  -> IntText(v.n)
      [] v.t = "str"  -> <<"\"">> \o v.s \o <<"\"">>
      [] v.t = "arr"  ->
            <<"[">> \o join(<<",", " ">>,
                            [i \in 1..Len(v.items) |-> dumps(v.items[i])])
                    \o <<"]">>
      [] v.t = "obj"  ->
            <<"{">> \o join(<<",", " ">>,
                            [i \in 1..Len(v.keys) |->
                                <<"\"">> \o v.keys[i] \o <<"\"", ":", " ">>
                                    \o dumps(v.items[i])])
                    \o <<"}">>

\* ---------------------------------------------------------- json.loads
\* The grammar of json.loads on the texts of the model: objects, arrays,
\* strings without escapes, integers, true, false, null.  The texts hold no
\* backslash, no control character and no float literal.

At(s, i) == IF i >= 1 /\ i <= Len(s) THEN s[i] ELSE "EOF"

\* The first index at or after i that holds no whitespace (Len(s) + 1 at
\* the end of the text).
SkipWs(s, i) == First(i, Len(s), LAMBDA j : s[j] \notin Whitespace)

Failed == [ok |-> FALSE, val |-> JNull, pos |-> 0]

Parsed(v, i) == [ok |-> TRUE, val |-> v, pos |-> i]

Matches(s, i, lit) ==
    i + Len(lit) - 1 <= Len(s) /\ SubSeq(s, i, i + Len(lit) - 1) = lit

\* q when it is an index of a text of length n, else 0.
OrZero(q, n) == IF q > n THEN 0 ELSE q

\* The index of the next double quote at or after i, or 0.
NextQuote(s, i) == OrZero(First(i, Len(s), LAMBDA j : s[j] = "\""), Len(s))

\* The string between the opening quote at i and the closing quote at j.
StringUpTo(s, i, j) ==
    IF j = 0 THEN Failed ELSE Parsed(JStr(SubSeq(s, i + 1, j - 1)), j + 1)

\* scanstring: s[i] is the opening quote.
ParseString(s, i) == StringUpTo(s, i, NextQuote(s, i + 1))

IsDigit(c) == c \in Range(Digits)

DigitVal(c) == (CHOOSE k \in 1..10 : Digits[k] = c) - 1

\* The last index of the run of digits that starts at i.
DigitsEnd(s, i) == First(i, Len(s), LAMBDA j : ~IsDigit(s[j])) - 1

RECURSIVE NatVal(_)
NatVal(ds) ==
    IF ds = <<>> THEN 0
    ELSE 10 * NatVal(SubSeq(ds, 1, Len(ds) - 1)) + DigitVal(ds[Len(ds)])

NatUpTo(s, d, e) == Parsed(JNum(NatVal(SubSeq(s, d, e))), e + 1)

\* The integer part of NUMBER_RE at d: 0|[1-9][0-9]*
ParseNat(s, d) ==
    IF ~IsDigit(At(s, d)) THEN Failed
    ELSE NatUpTo(s, d, IF s[d] = "0" THEN d ELSE DigitsEnd(s, d))

Negate(r) == IF r.ok THEN Parsed(JNum(-r.val.n), r.pos) ELSE Failed

\* NUMBER_RE without fraction and exponent: -?(0|[1-9][0-9]*)
ParseNumber(s, i) ==
    IF At(s, i) = "-" THEN Negate(ParseNat(s, i + 1)) ELSE ParseNat(s, i)

RECURSIVE ParseValue(_, _)
RECURSIVE ParseMembers(_, _, _)
RECURSIVE ParseElements(_, _, _)

\* JSONObject's loop, step by step.  After a comma: q is at the next key.
NextMember(s, q, obj) ==
    IF At(s, q) # "\"" THEN Failed ELSE ParseMembers(s, q, obj)

\* After a member: e is at the closing brace or at the comma.
MemberEnd(s, e, obj) ==
    IF At(s, e) = "}" THEN Parsed(obj, e + 1)
    ELSE IF At(s, e) # "," THEN Failed
    ELSE NextMember(s, SkipWs(s, e + 1), obj)

\* After the value v of key.
AfterMember(s, key, v, obj) ==
    IF ~v.ok THEN Failed
    ELSE MemberEnd(s, SkipWs(s, v.pos), ObjPut(obj, key, v.val))

\* After a key: c is at the colon.
AfterColon(s, key, c, obj) ==
    IF At(s, c) # ":" THEN Failed
    ELSE AfterMember(s, key, ParseValue(s, SkipWs(s, c + 1)), obj)

\* After the key string k.
AfterKey(s, k, obj) ==
    IF ~k.ok THEN Failed ELSE AfterColon(s, k.val.s, SkipWs(s, k.pos), obj)

\* i is at the opening quote of a key.
ParseMembers(s, i, obj) == AfterKey(s, ParseString(s, i), obj)

\* JSONObject: q is the first index behind the brace that holds no whitespace.
ParseObject(s, q) ==
    IF At(s, q) = "}" THEN Parsed(JObj(<<>>, <<>>), q + 1)
    ELSE IF At(s, q) # "\"" THEN Failed
    ELSE ParseMembers(s, q, JObj(<<>>, <<>>))

\* JSONArray's loop.  After an element: e is at the bracket or at the comma.
ElementEnd(s, e, xs) ==
    IF At(s, e) = "]" THEN Parsed(JArr(xs), e + 1)
    ELSE IF At(s, e) # "," THEN Failed
    ELSE ParseElements(s, SkipWs(s, e + 1), xs)

\* After the element v.
AfterElement(s, v, xs) ==
    IF ~v.ok THEN Failed ELSE ElementEnd(s, SkipWs(s, v.pos), Append(xs, v.val))

\* i is at the first character of an element.
ParseElements(s, i, xs) == AfterElement(s, ParseValue(s, i), xs)

\* JSONArray: q is the first index behind the bracket that holds no whitespace.
ParseArray(s, q) ==
    IF At(s, q) = "]" THEN Parsed(JArr(<<>>), q + 1)
    ELSE ParseElements(s, q, <<>>)

\* scan_once at index i, whose character is c.
ScanOnce(s, i, c) ==
    CASE c = "\"" -> ParseString(s, i)
      [] c = "{"  -> ParseObject(s, SkipWs(s, i + 1))
      [] c = "["  -> ParseArray(s, SkipWs(s, i + 1))
      [] c = "n" /\ Matches(s, i, <<"n","u","l","l">>) -> Parsed(JNull, i + 4)
      [] c = "t" /\ Matches(s, i, <<"t","r","u","e">>) ->
            Parsed(JBool(TRUE), i + 4)
      [] c = "f" /\ Matches(s, i, <<"f","a","l","s","e">>) ->
            Parsed(JBool(FALSE), i + 5)
      [] OTHER -> ParseNumber(s, i)

ParseValue(s, i) == ScanOnce(s, i, At(s, i))

\* JSONDecoder.decode: the value v must end the text, whitespace aside.
Whole(s, v) == IF v.ok /\ SkipWs(s, v.pos) = Len(s) + 1 THEN v ELSE Failed

\* json.loads(s): one value, whitespace around it, nothing else.  ok = FALSE
\* stands for the JSONDecodeError.
loads(s) == Whole(s, ParseValue(s, SkipWs(s, 1)))

\* -------------------------------------------------------- extract_json

\* The backtick character, written by its code point (a string of this
\* language cannot hold it).
Backtick == "U+0060"

IsFence(s, i) ==
    i + 2 <= Len(s) /\ s[i] = Backtick /\ s[i + 1] = Backtick /\ s[i + 2] = Backtick

\* The start of the first fence at or after i, or 0.
NextFence(s, i) == OrZero(First(i, Len(s), LAMBDA j : IsFence(s, j)), Len(s))

\* re.sub(r"```.*?```", "", text, flags=re.DOTALL) from position i on: an
\* opening fence with a closing fence after it is dropped with all between
\* them; an opening fence with none stays.
RECURSIVE DropFences(_, _)
DropSpan(s, i, open, close) ==
    IF close = 0 THEN SubSeq(s, i, Len(s))
    ELSE SubSeq(s, i, open - 1) \o DropFences(s, close + 3)

DropFrom(s, i, open) ==
    IF open = 0 THEN SubSeq(s, i, Len(s))
    ELSE DropSpan(s, i, open, NextFence(s, open + 3))

DropFences(s, i) == DropFrom(s, i, NextFence(s, i))

\* The scan for balanced {...} spans: i the position, depth the brace
\* depth, start the index of the brace that opened the current span.
\* (Characters other than braces change nothing, so the scan steps from
\* brace to brace: b is the index of the next one.)
RECURSIVE Candidates(_, _, _, _)
ScanBrace(s, b, depth, start) ==
    IF b > Len(s) THEN <<>>
    ELSE IF s[b] = "{"
    THEN Candidates(s, b + 1, depth + 1, IF depth = 0 THEN b ELSE start)
    ELSE IF depth = 0 THEN Candidates(s, b + 1, 0, start)
    ELSE IF depth = 1
    THEN <<SubSeq(s, start, b)>> \o Candidates(s, b + 1, 0, start)
    ELSE Candidates(s, b + 1, depth - 1, start)

Candidates(s, i, depth, start) ==
    ScanBrace(s, First(i, Len(s), LAMBDA j : s[j] \in {"{", "}"}), depth, start)

\* The first candidate json.loads accepts: r is what it says of the first.
RECURSIVE FirstParsed(_)
OrNext(r, cs) == IF r.ok THEN r ELSE FirstParsed(Tail(cs))

FirstParsed(cs) == IF cs = <<>> THEN Failed ELSE OrNext(loads(cs[1]), cs)

\* What extract_json returns or raises.
Outcome(r) == [ok |-> r.ok, val |-> r.val]

\* The fast path (fast: json.loads of the whole text), then the candidates.
FastOrScan(fast, t) ==
    IF fast.ok THEN fast ELSE FirstParsed(Candidates(t, 1, 0, 0))

\* t: the text without its fenced blocks.
ExtractFrom(t) == Outcome(FastOrScan(loads(strip(t)), t))

\* extract_json(text): [ok, val]; ok = FALSE stands for the ValueError.
extract_json(text) == ExtractFrom(DropFences(text, 1))

\* ------------------------------------------------------------- schemas
\* The three pydantic models.  A model is built from keyword arguments: a
\* str field takes a str only, a List[str] field a list of str only, other
\* keys are ignored, and then the field validator runs.  ok = FALSE stands
\* for the ValidationError.

TagCount == 3

WordLimit == 25

K_proposed_tags == <<"p","r","o","p","o","s","e","d","_","t","a","g","s">>

K_draft_summary == <<"d","r","a","f","t","_","s","u","m","m","a","r","y">>

K_approved_tags == <<"a","p","p","r","o","v","e","d","_","t","a","g","s">>

K_edited_summary == <<"e","d","i","t","e","d","_","s","u","m","m","a","r","y">>

K_tags == <<"t","a","g","s">>

K_summary == <<"s","u","m","m","a","r","y">>

\* The field type check of List[str]: a list whose items are all str.
IsStrList(v) == IsList(v) /\ \A i \in 1..Len(v.items) : IsStr(v.items[i])

\* The str items of a list, as Python strs.
StrItems(v) == [i \in 1..Len(v.items) |-> v.items[i].s]

\* all(isinstance(x, str) and x.strip() for x in v) on a list of str.
AllNonBlank(ts) == \A i \in 1..Len(ts) : strip(ts[i]) # <<>>

NoPlanner == [proposed_tags |-> <<>>, draft_summary |-> <<>>]

\* The fields of PlannerOut: t and d are the values of the two keys (None
\* for a missing key fails the type check as the missing field does).
PlannerFields(t, d) ==
    IF IsStrList(t) /\ IsStr(d) /\ t.items # <<>> /\ AllNonBlank(StrItems(t))
    THEN [ok |-> TRUE,
          val |-> [proposed_tags |-> StrItems(t), draft_summary |-> d.s]]
    ELSE [ok |-> FALSE, val |-> NoPlanner]

\* PlannerOut(**obj) and nonempty_tags.
PlannerOut(obj) == PlannerFields(Get(obj, K_proposed_tags), Get(obj, K_draft_summary))

NoReviewer == [approved_tags |-> <<>>, edited_summary |-> <<>>]

ReviewerFields(t, d) ==
    IF IsStrList(t) /\ IsStr(d) /\ Len(t.items) = TagCount
       /\ AllNonBlank(StrItems(t))
    THEN [ok |-> TRUE,
          val |-> [approved_tags |-> StrItems(t), edited_summary |-> d.s]]
    ELSE [ok |-> FALSE, val |-> NoReviewer]

\* ReviewerOut(**obj) and exactly_three.
ReviewerOut(obj) ==
    ReviewerFields(Get(obj, K_approved_tags), Get(obj, K_edited_summary))

NoPublish == [tags |-> <<>>, summary |-> <<>>]

\* PublishOut with exactly_three_final left out: any number of tags passes.
PublishOutAnyCount(tags, summary) ==
    IF /\ AllNonBlank(tags)
       /\ word_count(summary) <= WordLimit
    THEN [ok |-> TRUE, val |-> [tags |-> tags, summary |-> summary]]
    ELSE [ok |-> FALSE, val |-> NoPublish]

\* PublishOut(tags=tags, summary=summary) on a list of str and a str, with
\* exactly_three_final and limit_words.
PublishOut(tags, summary) ==
    IF /\ Len(tags) = TagCount
       /\ AllNonBlank(tags)
       /\ word_count(summary) <= WordLimit
    THEN [ok |-> TRUE, val |-> [tags |-> tags, summary |-> summary]]
    ELSE [ok |-> FALSE, val |-> NoPublish]

\* A list of str as a JSON value.
StrList(ts) == JArr([i \in 1..Len(ts) |-> JStr(ts[i])])

\* publish.model_dump() as a JSON value.
model_dump(p) == JObj(<<K_tags, K_summary>>, <<StrList(p.tags), JStr(p.summary)>>)

\* -------------------------------------------------------------- repair

\* s[:k]
Take(xs, k) == SubSeq(xs, 1, IF Len(xs) < k THEN Len(xs) ELSE k)

\* The except branch of the Finalizer's extraction: the object built from
\* the Reviewer's result.
ReviewerObject(rev) ==
    JObj(<<K_tags, K_summary>>,
         <<StrList(rev.approved_tags), JStr(rev.edited_summary)>>)

\* v or reviewer.approved_tags, made a list when it is none: the values the
\* de-duplication loop iterates.
TagList(v, rev) ==
    IF ~Truthy(v) THEN StrList(rev.approved_tags).items
    ELSE IF IsList(v) THEN v.items
    ELSE <<JStr(PyStr(v))>>

\* tags = final_json.get("tags") or reviewer.approved_tags
TagSource(fj, rev) == TagList(Get(fj, K_tags), rev)

RECURSIVE Dedup(_, _, _)
\* The loop body comparing t itself instead of t.lower().
DedupStepCaseSensitive(ts, seen, uniq, t) ==
    IF t # <<>> /\ t \notin seen
    THEN Dedup(Tail(ts), seen \cup {t}, Append(uniq, t))
    ELSE Dedup(Tail(ts), seen, uniq)

\* The de-duplication loop: seen the set of lower-cased tags, uniq the list,
\* t the stripped str of the head of ts.
DedupStep(ts, seen, uniq, t) ==
    IF t # <<>> /\ lower(t) \notin seen
    THEN Dedup(Tail(ts), seen \cup {lower(t)}, Append(uniq, t))
    ELSE Dedup(Tail(ts), seen, uniq)

Dedup(ts, seen, uniq) ==
    IF ts = <<>> THEN [seen |-> seen, uniq |-> uniq]
    ELSE DedupStep(ts, seen, uniq, strip(PyStr(Head(ts))))

\* The top-up loop over reviewer.approved_tags, with its break: the head of
\* rs was appended (uniq is the list after it) or not.
RECURSIVE TopUp(_, _, _)
TopUpNext(rs, seen, uniq) ==
    IF Len(uniq) = TagCount THEN uniq ELSE TopUp(Tail(rs), seen, uniq)

TopUp(rs, seen, uniq) ==
    IF rs = <<>> THEN uniq
    ELSE IF lower(Head(rs)) \notin seen
    THEN TopUpNext(rs, seen \cup {lower(Head(rs))}, Append(uniq, Head(rs)))
    ELSE TopUpNext(rs, seen, uniq)

\* if len(uniq) < 3: top up; tags = uniq[:3]
TopUpAndCut(d, rev) ==
    Take(IF Len(d.uniq) < TagCount
         THEN TopUp(rev.approved_tags, d.seen, d.uniq)
         ELSE d.uniq,
         TagCount)

\* The repaired tags.
RepairTags(fj, rev) == TopUpAndCut(Dedup(TagSource(fj, rev), {}, <<>>), rev)

\* str(v or reviewer.edited_summary).strip()
SummaryOf(v, rev) == strip(IF Truthy(v) THEN PyStr(v) ELSE rev.edited_summary)

\* summary = str(final_json.get("summary") or reviewer.edited_summary).strip()
SelectSummary(fj, rev) == SummaryOf(Get(fj, K_summary), rev)

\* " ".join(tokens[:25])
JoinFirst(tokens) == join(<<" ">>, Take(tokens, WordLimit))

\* The hard limit without its if: every summary is re-joined from its tokens.
LimitAlwaysJoins(summary, tokens) ==
    rstrip(JoinFirst(tokens), RstripChars)

\* The hard limit: tokens are the word-tokens of summary.
Limit(summary, tokens) ==
    IF Len(tokens) > WordLimit
    THEN rstrip(JoinFirst(tokens), RstripChars)
    ELSE summary

LimitSummary(summary) == Limit(summary, Tokens(summary))

\* The repaired summary.
RepairSummary(fj, rev) == LimitSummary(SelectSummary(fj, rev))

\* The except ValidationError branch: the last-resort PublishOut.
Fallback(rev, tags, summary) ==
    PublishOut(IF rev.approved_tags # <<>> THEN Take(rev.approved_tags, TagCount)
               ELSE Take(tags, TagCount),
               IF word_count(rev.edited_summary) <= WordLimit
               THEN rev.edited_summary
               ELSE JoinFirst(Tokens(summary)))

\* -------------------------------------------------------------- stages
\* err names the exception that propagates ("none": the stage succeeded).

PlannerChecked(p) ==
    IF p.ok THEN [err |-> "none", val |-> p.val]
    ELSE [err |-> "ValidationError", val |-> NoPlanner]

\* r: what extract_json(planner_raw) returned or raised.
PlannerFrom(r) ==
    IF ~r.ok THEN [err |-> "ValueError", val |-> NoPlanner]
    ELSE IF ~IsDict(r.val) THEN [err |-> "TypeError", val |-> NoPlanner]
    ELSE PlannerChecked(PlannerOut(r.val))

\* try: extract_json(raw); PlannerOut(**planner_json)  except: raise
PlannerStage(raw) == PlannerFrom(extract_json(raw))

ReviewerChecked(p) ==
    IF p.ok THEN [err |-> "none", val |-> p.val]
    ELSE [err |-> "ValidationError", val |-> NoReviewer]

ReviewerFrom(r) ==
    IF ~r.ok THEN [err |-> "ValueError", val |-> NoReviewer]
    ELSE IF ~IsDict(r.val) THEN [err |-> "TypeError", val |-> NoReviewer]
    ELSE ReviewerChecked(ReviewerOut(r.val))

\* try: extract_json(raw); ReviewerOut(**reviewer_json)  except: raise
ReviewerStage(raw) == ReviewerFrom(extract_json(raw))

FinalizerFrom(r, rev) ==
    IF r.ok THEN [extracted |-> TRUE, val |-> r.val]
    ELSE [extracted |-> FALSE, val |-> ReviewerObject(rev)]

\* try: final_json = extract_json(final_raw)  except: the Reviewer's object
FinalizerStage(raw, rev) == FinalizerFrom(extract_json(raw), rev)

\* The result of the repair: the last-resort PublishOut was built.
LastResort(last, tags, summary) ==
    [err      |-> IF last.ok THEN "none" ELSE "ValidationError",
     tags     |-> tags,
     summary  |-> summary,
     fallback |-> TRUE,
     publish  |-> last.val]

\* try: PublishOut(tags, summary) (first)  except ValidationError: fallback
Construct(first, rev, tags, summary) ==
    IF first.ok
    THEN [err |-> "none", tags |-> tags, summary |-> summary,
          fallback |-> FALSE, publish |-> first.val]
    ELSE LastResort(Fallback(rev, tags, summary), tags, summary)

Guarded(rev, tags, summary) ==
    Construct(PublishOut(tags, summary), rev, tags, summary)

\* The guardrails and the construction of the Publish object.  final_json.get
\* raises AttributeError on a value that is no dict.
RepairStage(fj, rev) ==
    IF ~IsDict(fj)
    THEN [err |-> "AttributeError", tags |-> <<>>, summary |-> <<>>,
          fallback |-> FALSE, publish |-> NoPublish]
    ELSE Guarded(rev, RepairTags(fj, rev), RepairSummary(fj, rev))

\* --------------------------------------------------------------- inputs
\* The texts the three model calls can return, and the texts extract_json
\* is applied to.

MaxTags == 4

MaxExtraWords == 2

MaxKeys == 2

SeqsUpTo(S, n) == UNION {[1..k -> S] : k \in 0..n}

\* A marker for a key the object does not hold.
Absent == [JNull EXCEPT !.t = "absent"]

\* The object with key k1 (when v1 is not Absent) and key k2 (likewise).
MkObj(k1, v1, k2, v2) ==
    JObj((IF v1 = Absent THEN <<>> ELSE <<k1>>) \o (IF v2 = Absent THEN <<>> ELSE <<k2>>),
         (IF v1 = Absent THEN <<>> ELSE <<v1>>) \o (IF v2 = Absent THEN <<>> ELSE <<v2>>))

\* n words joined by sep: every word is "w" but the 25th, which is w25.
Words(n, w25, sep) ==
    join(sep, [i \in 1..n |-> IF i = WordLimit THEN w25 ELSE <<"w">>])

ShortSummary == <<"x", " ", "y">>

LastWords == {<<"w">>, <<"â">>, <<"w", "â">>, <<"w", "-", "w">>}

Separators == {<<" ">>, <<",", " ">>}

LongSummaries ==
    {Words(n, w, sep) : n \in (WordLimit + 1)..(WordLimit + MaxExtraWords),
                        w \in LastWords, sep \in Separators}

SummaryStrings ==
    LongSummaries
    \cup {<<" ">> \o Words(WordLimit + 1, <<"w">>, <<" ">>) \o <<" ", "-">>}
    \cup {Words(WordLimit - 1, <<"w">>, <<" ">>),
          Words(WordLimit, <<"w">>, <<" ">>),
          Words(WordLimit, <<"â">>, <<",", " ">>) \o <<" ", "-">>,
          <<>>, <<" ">>, <<" ", "x", ",", " ", "y", " ">>, ShortSummary}

SummaryValues ==
    {JStr(x) : x \in SummaryStrings}
    \cup {Absent, JNull, JNum(5), JNum(0), JArr(<<JNum(1)>>)}

FinalTagPool == {JStr(<<"a">>), JStr(<<"A", " ">>), JStr(<<"b">>), JStr(<<" ">>)}

FinalTagLists == {JArr(x) : x \in SeqsUpTo(FinalTagPool, MaxTags)}

OtherTagValues ==
    {Absent, JNull, JStr(<<"b">>), JStr(<<>>), JStr(<<" ", "b", " ">>),
     JNum(7), JNum(0), JBool(TRUE),
     JObj(<<<<"k">>>>, <<JNum(1)>>), JObj(<<>>, <<>>),
     JArr(<<JNum(1), JNull, JStr(<<"a">>)>>)}

CoreTagValues ==
    {Absent, JStr(<<"b">>), JArr(<<>>),
     JArr(<<JStr(<<"a">>), JStr(<<"a">>), JStr(<<"b">>)>>)}

FinalObjects ==
    {MkObj(K_tags, t, K_summary, JStr(ShortSummary)) :
        t \in FinalTagLists \cup OtherTagValues}
    \cup {MkObj(K_tags, t, K_summary, x) : t \in CoreTagValues, x \in SummaryValues}
    \cup {ObjPut(MkObj(K_tags, JArr(<<>>), K_summary, JStr(ShortSummary)),
                 <<"e", "x", "t", "r", "a">>, JNum(1))}

Prose == <<"n", "o", " ", "j", "s", "o", "n">>

Fence == <<Backtick, Backtick, Backtick>>

\* Texts extract_json finds no object in: prose, nothing, a JSON value
\* that is no object, an object inside a fenced block, an object behind an
\* unbalanced brace.
SpecialTexts(obj) ==
    {Prose, <<>>,
     dumps(JArr(<<JNum(1), JNum(2)>>)), dumps(JNum(7)), dumps(JNull),
     dumps(JStr(<<"s">>)),
     Fence \o dumps(obj) \o Fence,
     <<"{", " ">> \o dumps(obj)}

\* An object between two pieces of prose.
InProse(obj) == Prose \o <<" ">> \o dumps(obj) \o <<" ">> \o Prose

FinalTexts ==
    {dumps(o) : o \in FinalObjects}
    \cup SpecialTexts(MkObj(K_tags, JArr(<<JStr(<<"b">>)>>), K_summary, JStr(ShortSummary)))
    \cup {InProse(MkObj(K_tags, JArr(<<JStr(<<"b">>)>>), K_summary, JStr(ShortSummary)))}

ReviewerTriples ==
    {<<<<"A">>, <<"B">>, <<"C">>>>,
     <<<<"a">>, <<"a">>, <<"b">>>>,
     <<<<"a">>, <<"A">>, <<"b">>>>,
     <<<<" ", "a">>, <<"b">>, <<"c">>>>,
     <<<<"a">>, <<" ", "a">>, <<"b">>>>,
     <<<<"c">>, <<"b">>, <<"a">>>>}

ReviewerSummaries ==
    {<<"r", " ", "s">>, <<" ", "r", " ">>, <<>>,
     Words(WordLimit + 1, <<"w">>, <<" ">>)}

ReviewerObjects ==
    {MkObj(K_approved_tags, StrList(t), K_edited_summary, JStr(<<"r", " ", "s">>)) :
        t \in ReviewerTriples}
    \cup {MkObj(K_approved_tags, StrList(t), K_edited_summary, JStr(x)) :
            t \in {<<<<"A">>, <<"B">>, <<"C">>>>, <<<<"a">>, <<"a">>, <<"b">>>>},
            x \in ReviewerSummaries}
    \cup {MkObj(K_approved_tags, t, K_edited_summary, x) :
            t \in {Absent, StrList(<<<<"a">>, <<"b">>>>),
                   StrList(<<<<"a">>, <<"b">>, <<"c">>, <<"d">>>>),
                   StrList(<<<<"a">>, <<" ">>, <<"c">>>>),
                   JArr(<<JStr(<<"a">>), JNum(1), JStr(<<"c">>)>>),
                   JStr(<<"a">>)},
            x \in {JStr(<<"r">>)}}
    \cup {MkObj(K_approved_tags, StrList(<<<<"a">>, <<"b">>, <<"c">>>>),
                K_edited_summary, x) : x \in {Absent, JNum(5)}}

ReviewerTexts ==
    {dumps(o) : o \in ReviewerObjects}
    \cup SpecialTexts(MkObj(K_approved_tags, StrList(<<<<"x">>, <<"y">>, <<"z">>>>),
                            K_edited_summary, JStr(<<"r">>)))

PlannerObjects ==
    {MkObj(K_proposed_tags, t, K_draft_summary, x) :
        t \in {Absent, JArr(<<>>), StrList(<<<<"a">>, <<"b">>>>),
               StrList(<<<<"a">>, <<" ">>>>), JStr(<<"a">>)},
        x \in {Absent, JStr(<<"d">>)}}

PlannerTexts ==
    {dumps(o) : o \in PlannerObjects}
    \cup SpecialTexts(MkObj(K_proposed_tags, StrList(<<<<"a">>, <<"b">>>>),
                            K_draft_summary, JStr(<<"d">>)))

\* ------------------------------------------------------- state machine

VARIABLES
    pc,            \* PLANNING, REVIEWING, FINALIZING, REPAIRING, DONE, FAILED
    calls,         \* the model calls made so far, in order
    planner_raw,   \* the text of the Planner call
    reviewer_raw,  \* the text of the Reviewer call
    final_raw,     \* the text of the Finalizer call
    planner,       \* the validated PlannerOut
    reviewer,      \* the validated ReviewerOut
    final_json,    \* the working object of the repair
    extracted,     \* whether extract_json(final_raw) returned
    tags,          \* the repaired tags
    summary,       \* the repaired summary
    fallback,      \* whether the last-resort PublishOut was built
    publish,       \* the PublishOut returned
    stdout,        \* what was printed: <<section, text>> pairs
    err,           \* the exception run_pipeline raised, or "none"
    x_text,        \* extract_json on its own: the text
    x_obj,         \* the object the text was built around
    x_pc,          \* ready, done
    x_result       \* what extract_json returned

pipeVars ==
    <<pc, calls, planner_raw, reviewer_raw, final_raw, planner, reviewer,
      final_json, extracted, tags, summary, fallback, publish, stdout, err>>

extractVars == <<x_text, x_obj, x_pc, x_result>>

vars == <<pipeVars, extractVars>>

NoResult == [ok |-> FALSE, val |-> JNull]

PipeInit ==
    /\ pc = "PLANNING"
    /\ calls = <<>>
    /\ planner_raw = <<>>
    /\ reviewer_raw = <<>>
    /\ final_raw = <<>>
    /\ planner = NoPlanner
    /\ reviewer = NoReviewer
    /\ final_json = JNull
    /\ extracted = FALSE
    /\ tags = <<>>
    /\ summary = <<>>
    /\ fallback = FALSE
    /\ publish = NoPublish
    /\ stdout = <<>>
    /\ err = "none"

ExtractIdle ==
    /\ x_text = <<>>
    /\ x_obj = JNull
    /\ x_pc = "idle"
    /\ x_result = NoResult

Init == PipeInit /\ ExtractIdle

\* The Planner step with the failure swallowed: the run goes on to REVIEWING.
PlannedLenient(raw, r) ==
    /\ calls' = Append(calls, "Planner")
    /\ planner_raw' = raw
    /\ stdout' = Append(stdout, <<"Planner output (raw)", strip(raw)>>)
    /\ planner' = r.val
    /\ err' = r.err
    /\ pc' = "REVIEWING"
    /\ UNCHANGED <<reviewer_raw, final_raw, reviewer, final_json, extracted,
                   tags, summary, fallback, publish, extractVars>>

\* The Planner call, the print of its raw text, and the Planner try block
\* (r: its result).
Planned(raw, r) ==
    /\ calls' = Append(calls, "Planner")
    /\ planner_raw' = raw
    /\ stdout' = Append(stdout, <<"Planner output (raw)", strip(raw)>>)
    /\ planner' = r.val
    /\ err' = r.err
    /\ pc' = IF r.err = "none" THEN "REVIEWING" ELSE "FAILED"
    /\ UNCHANGED <<reviewer_raw, final_raw, reviewer, final_json, extracted,
                   tags, summary, fallback, publish, extractVars>>

Planning(raw) == pc = "PLANNING" /\ Planned(raw, PlannerStage(raw))

\* The Reviewer call, the print of its raw text, and the Reviewer try block.
Reviewed(raw, r) ==
    /\ calls' = Append(calls, "Reviewer")
    /\ reviewer_raw' = raw
    /\ stdout' = Append(stdout, <<"Reviewer output (raw)", strip(raw)>>)
    /\ reviewer' = r.val
    /\ err' = r.err
    /\ pc' = IF r.err = "none" THEN "FINALIZING" ELSE "FAILED"
    /\ UNCHANGED <<planner_raw, final_raw, planner, final_json, extracted,
                   tags, summary, fallback, publish, extractVars>>

Reviewing(raw) == pc = "REVIEWING" /\ Reviewed(raw, ReviewerStage(raw))

\* The Finalizer call, the print of its raw text, and the extraction with
\* its fallback to the Reviewer's object.
Finalized(raw, r) ==
    /\ calls' = Append(calls, "Finalizer")
    /\ final_raw' = raw
    /\ stdout' = Append(stdout, <<"Finalized Output (raw)", strip(raw)>>)
    /\ final_json' = r.val
    /\ extracted' = r.extracted
    /\ pc' = "REPAIRING"
    /\ UNCHANGED <<planner_raw, reviewer_raw, planner, reviewer, tags, summary,
                   fallback, publish, err, extractVars>>

Finalizing(raw) == pc = "FINALIZING" /\ Finalized(raw, FinalizerStage(raw, reviewer))

\* The guardrails, the PublishOut construction, the print of the result.
Repaired(r) ==
    /\ err' = r.err
    /\ tags' = r.tags
    /\ summary' = r.summary
    /\ fallback' = r.fallback
    /\ publish' = r.publish
    /\ pc' = IF r.err = "none" THEN "DONE" ELSE "FAILED"
    /\ stdout' = IF r.err = "none"
                 THEN Append(stdout, <<"Publish output (strict JSON)",
                                       dumps(model_dump(r.publish))>>)
                 ELSE stdout
    /\ UNCHANGED <<calls, planner_raw, reviewer_raw, final_raw, planner,
                   reviewer, final_json, extracted, extractVars>>

Repairing == pc = "REPAIRING" /\ Repaired(RepairStage(final_json, reviewer))

Next ==
    \/ \E raw \in PlannerTexts : Planning(raw)
    \/ \E raw \in ReviewerTexts : Reviewing(raw)
    \/ \E raw \in FinalTexts : Finalizing(raw)
    \/ Repairing

Spec == Init /\ [][Next]_vars

\* ------------------------------------------- extract_json on its own

XStrings ==
    {<<"x">>, <<"}">>, <<"{">>, <<"{", "}">>,
     Fence, Fence \o <<"x">> \o Fence}

XValues ==
    {JStr(x) : x \in XStrings}
    \cup {JNum(1), JNull, JArr(<<JNum(1)>>),
          JObj(<<<<"k">>>>, <<JStr(<<"}">>)>>)}

\* The i-th key: a, b, c, ...
XKey(i) == <<LowerLetters[i]>>

\* The objects with up to MaxKeys members.
XObjects ==
    UNION {{JObj([i \in 1..k |-> XKey(i)], vs) : vs \in [1..k -> XValues]} :
            k \in 0..MaxKeys}

XPrefixes ==
    {<<>>, Prose \o <<" ">>, <<"{", " ">>, <<"}", " ">>,
     <<"{", "x", "}", " ">>, Fence \o <<" ">>}

XSuffixes == {<<>>, <<" ">> \o Prose, <<" ", "}">>, <<" ", "{">>, <<" ">> \o Fence}

XInit ==
    /\ PipeInit
    /\ x_obj \in XObjects
    /\ \E pre \in XPrefixes, suf \in XSuffixes : x_text = pre \o dumps(x_obj) \o suf
    /\ x_pc = "ready"
    /\ x_result = NoResult

Extract ==
    /\ x_pc = "ready"
    /\ x_result' = extract_json(x_text)
    /\ x_pc' = "done"
    /\ UNCHANGED <<x_text, x_obj, pipeVars>>

XNext == Extract

ExtractSpec == XInit /\ [][XNext]_vars

\* --------------------------------------------------------------- claims

PublishSection == "Publish output (strict JSON)"

\* The run printed no Publish object.
NoPublishLine == \A i \in 1..Len(stdout) : stdout[i][1] # PublishSection

\* The last thing printed, read back as JSON.
LastPrinted == loads(stdout[Len(stdout)][2])

\* The value of the finalized object's summary key.
FinalSummary == Get(final_json, K_summary)

\* The value of the finalized object's tags key.
FinalTags == Get(final_json, K_tags)

\* C1: whenever the run is DONE, the last line printed is the Publish
\* object: a JSON object with exactly the keys tags and summary, tags a list
\* of exactly 3 strings each non-empty after trimming, summary a string of
\* at most 25 word-tokens.
C1_PublishShape ==
    pc = "DONE" =>
        /\ stdout[Len(stdout)][1] = PublishSection
        /\ LastPrinted.ok
        /\ IsDict(LastPrinted.val)
        /\ LastPrinted.val = model_dump(publish)
        /\ Len(LastPrinted.val.keys) = 2
        /\ Range(LastPrinted.val.keys) = {K_tags, K_summary}
        /\ IsStrList(Get(LastPrinted.val, K_tags))
        /\ Len(Get(LastPrinted.val, K_tags).items) = 3
        /\ \A i \in 1..3 : strip(Get(LastPrinted.val, K_tags).items[i].s) # <<>>
        /\ IsStr(Get(LastPrinted.val, K_summary))
        /\ word_count(Get(LastPrinted.val, K_summary).s) <= 25

\* A run that is DONE after the Finalizer returned an object whose three
\* tags needed repair and whose summary had more than 25 word-tokens.
C1_Witness ==
    /\ pc = "DONE"
    /\ extracted
    /\ IsStrList(FinalTags)
    /\ Len(FinalTags.items) = 3
    /\ StrItems(FinalTags) # publish.tags
    /\ IsStr(FinalSummary)
    /\ word_count(FinalSummary.s) > 25

\* C2: FAILED is not reachable once the Reviewer's result is validated: a run
\* that made the Finalizer call never ends FAILED.
C2_NoFailureAfterReviewer == pc = "FAILED" => Len(calls) < 3

\* C3: the tags of the published object are exactly 3 strings, pairwise
\* distinct when compared case-insensitively, each non-empty and each with
\* no leading or trailing whitespace.
C3_TagsUniqueTrimmed ==
    pc = "DONE" =>
        /\ Len(publish.tags) = 3
        /\ \A i \in 1..3 : publish.tags[i] # <<>> /\ strip(publish.tags[i]) = publish.tags[i]
        /\ \A i, j \in 1..3 : i # j => lower(publish.tags[i]) # lower(publish.tags[j])

\* C4: a Planner or Reviewer whose text fails extraction or validation ends
\* the run in FAILED with that error, with no later model call made and no
\* Publish object printed.
C4_FailFast ==
    /\ (Len(calls) >= 1 /\ PlannerStage(planner_raw).err # "none") =>
            /\ pc = "FAILED"
            /\ err = PlannerStage(planner_raw).err
            /\ calls = <<"Planner">>
            /\ NoPublishLine
    /\ (Len(calls) >= 2 /\ ReviewerStage(reviewer_raw).err # "none") =>
            /\ pc = "FAILED"
            /\ err = ReviewerStage(reviewer_raw).err
            /\ calls = <<"Planner", "Reviewer">>
            /\ NoPublishLine

\* A run that failed in REVIEWING on a schema violation.
C4_Witness ==
    /\ pc = "FAILED"
    /\ calls = <<"Planner", "Reviewer">>
    /\ err = "ValidationError"
    /\ extract_json(reviewer_raw).ok

\* C5: a selected summary of more than 25 word-tokens is repaired to exactly
\* its first 25 word-tokens, in order.
C5_TruncatesToFirst25 ==
    (pc = "DONE" /\ word_count(SelectSummary(final_json, reviewer)) > 25) =>
        Tokens(summary) = SubSeq(Tokens(SelectSummary(final_json, reviewer)), 1, 25)

\* C6 as stated: a finalized summary string of at most 25 word-tokens (the
\* empty string included) is published with only its leading and trailing
\* whitespace removed, also when the last-resort fallback is used.
C6_ShortSummaryKept ==
    (pc = "DONE" /\ extracted /\ IsStr(FinalSummary)
        /\ word_count(FinalSummary.s) <= 25) =>
        publish.summary = strip(FinalSummary.s)

\* C6 as amended: a non-empty finalized summary string of at most 25
\* word-tokens is published trimmed when the first PublishOut construction
\* succeeds; when the last-resort fallback is used the published summary is
\* the Reviewer's edited summary if that has at most 25 word-tokens, else the
\* word-tokens of the finalized summary joined by single spaces.  An empty
\* finalized summary counts as absent: with a Reviewer summary of at most 25
\* word-tokens the published summary is the Reviewer's, trimming aside.
C6_ShortSummaryKeptUnlessFallback ==
    (pc = "DONE" /\ extracted /\ IsStr(FinalSummary)
        /\ word_count(FinalSummary.s) <= 25) =>
        /\ (FinalSummary.s # <<>> /\ ~fallback) =>
                publish.summary = strip(FinalSummary.s)
        /\ (FinalSummary.s # <<>> /\ fallback
                /\ word_count(reviewer.edited_summary) <= 25) =>
                publish.summary = reviewer.edited_summary
        /\ (FinalSummary.s # <<>> /\ fallback
                /\ word_count(reviewer.edited_summary) > 25) =>
                publish.summary = join(<<" ">>, Tokens(FinalSummary.s))
        /\ (FinalSummary.s = <<>> /\ word_count(reviewer.edited_summary) <= 25) =>
                strip(publish.summary) = strip(reviewer.edited_summary)

\* A run that published a finalized summary with punctuation and with
\* whitespace around it, trimmed.
C6_Witness ==
    /\ pc = "DONE"
    /\ extracted
    /\ ~fallback
    /\ IsStr(FinalSummary)
    /\ strip(FinalSummary.s) # FinalSummary.s
    /\ Tokens(FinalSummary.s) # <<>>
    /\ join(<<" ">>, Tokens(FinalSummary.s)) # strip(FinalSummary.s)
    /\ publish.summary = strip(FinalSummary.s)

\* C9: when extraction from the Finalizer's text fails and the Reviewer's
\* edited summary has at most 25 word-tokens, the published tags are the
\* Reviewer's approved tags in the same order and the published summary is
\* the Reviewer's edited summary, both modulo trimming.
C9_FallbackIsReviewer ==
    (pc = "DONE" /\ ~extracted /\ word_count(reviewer.edited_summary) <= 25) =>
        /\ [i \in 1..Len(publish.tags) |-> strip(publish.tags[i])]
            = [i \in 1..Len(reviewer.approved_tags) |-> strip(reviewer.approved_tags[i])]
        /\ strip(publish.summary) = strip(reviewer.edited_summary)

\* The elements of xs at the indices K, in order.
SubAt(xs, K) ==
    [n \in 1..Cardinality(K) |->
        xs[CHOOSE i \in K : Cardinality({j \in K : j <= i}) = n]]

\* The entries of a tag source, as trimmed strings.
Trimmed(src) == [i \in 1..Len(src) |-> strip(PyStr(src[i]))]

\* The non-empty entries of es, each kept where it is first seen, compared
\* in lower case.
FirstSeen(es) ==
    SubAt(es, {i \in 1..Len(es) :
                es[i] # <<>> /\ \A j \in 1..(i - 1) : lower(es[j]) # lower(es[i])})

\* The Reviewer's tags, as they are, whose lower-cased form is not among the
\* lower-cased entries of ds, each once.
Missing(rs, ds) ==
    SubAt(rs, {i \in 1..Len(rs) :
                /\ \A k \in 1..Len(ds) : lower(ds[k]) # lower(rs[i])
                /\ \A j \in 1..(i - 1) : lower(rs[j]) # lower(rs[i])})

\* Trimmed, de-duplicated, topped up, cut to the first 3.
TagsFrom(src, rs) ==
    SubSeq(FirstSeen(Trimmed(src)) \o Missing(rs, FirstSeen(Trimmed(src))), 1,
           IF Len(FirstSeen(Trimmed(src)) \o Missing(rs, FirstSeen(Trimmed(src)))) < 3
           THEN Len(FirstSeen(Trimmed(src)) \o Missing(rs, FirstSeen(Trimmed(src))))
           ELSE 3)

ReviewerTags == [i \in 1..Len(reviewer.approved_tags) |-> JStr(reviewer.approved_tags[i])]

\* C10 as stated: the tag source is the finalized tags value only when it is
\* an array, and the Reviewer's approved tags for every other value; the
\* repaired tags are the source trimmed, de-duplicated case-insensitively,
\* topped up from the Reviewer's tags and cut to 3.
C10_SourceIsArrayOrReviewer ==
    pc = "DONE" =>
        tags = TagsFrom(IF IsList(FinalTags) THEN FinalTags.items ELSE ReviewerTags,
                        reviewer.approved_tags)

\* C10 as amended: the tag source is the finalized tags value when it is a
\* non-empty array; a value that is no array and is truthy (a non-empty
\* string, a non-zero number, true, a non-empty object) is the one-entry
\* source holding its str(); for every other value (absent, null, empty
\* string, 0, false, empty array, empty object) it is the Reviewer's approved
\* tags.  The repaired tags are the source's entries trimmed and
\* de-duplicated case-insensitively in first-seen order, topped up with the
\* Reviewer's approved tags (untrimmed) whose lower-cased form is not yet
\* present, and cut to the first 3.
C10_SourceIsTruthyValueOrReviewer ==
    pc = "DONE" =>
        tags = TagsFrom(IF ~Truthy(FinalTags) THEN ReviewerTags
                        ELSE IF IsList(FinalTags) THEN FinalTags.items
                        ELSE <<JStr(PyStr(FinalTags))>>,
                        reviewer.approved_tags)

\* A run whose Finalizer returned a non-empty string as tags, which became
\* the first repaired tag and was topped up from the Reviewer's tags.
C10_Witness ==
    /\ pc = "DONE"
    /\ extracted
    /\ IsStr(FinalTags)
    /\ strip(FinalTags.s) # <<>>
    /\ tags = <<strip(FinalTags.s), reviewer.approved_tags[1], reviewer.approved_tags[2]>>

\* The spans of a text that start and end with a brace and are JSON objects.
ObjectSpans(s) ==
    {sp \in (1..Len(s)) \X (1..Len(s)) :
        /\ sp[1] < sp[2]
        /\ s[sp[1]] = "{"
        /\ s[sp[2]] = "}"
        /\ loads(SubSeq(s, sp[1], sp[2])).ok}

\* Those that lie in no other one.
TopLevelSpans(s) ==
    {sp \in ObjectSpans(s) :
        \A other \in ObjectSpans(s) :
            (other[1] <= sp[1] /\ sp[2] <= other[2]) => other = sp}

\* C7: from a text that holds exactly one top-level JSON object, anywhere
\* inside noise, extract_json returns that object.
C7_ExtractsTheOnlyObject ==
    (x_pc = "done" /\ Cardinality(TopLevelSpans(x_text)) = 1) =>
        /\ x_result.ok
        /\ \A sp \in TopLevelSpans(x_text) :
                x_result.val = loads(SubSeq(x_text, sp[1], sp[2])).val

\* C8: extract_json of the canonical serialization of an object returns an
\* object equal to it.
C8_RoundTrip ==
    (x_pc = "done" /\ x_text = dumps(x_obj)) =>
        (x_result.ok /\ x_result.val = x_obj)

====
